---- MODULE Spec2Model ----
(***************************************************************************)
(* update_notifier: the Scraper worker (src/handlers.py, class Scraper)    *)
(* and the command handlers that keep the users/url dict                   *)
(* (add, remove, list_urls, end, timer, timer_set).                        *)
(*                                                                         *)
(* The command handlers run one at a time on the dispatcher thread of the  *)
(* bot library, so each handler is one action.  Every started Scraper runs *)
(* _search_for_updates on a thread of its own, so the steps of that loop   *)
(* interleave freely with the handlers and with each other.                *)
(*                                                                         *)
(* SpecRace takes add, list_urls and end apart into their reads and writes *)
(* of the dict and lets the dispatcher decide when a handler may begin.    *)
(***************************************************************************)
EXTENDS Integers, Sequences, FiniteSets, TLC

VARIABLES
    urls,       \* user_urls (app.py): chat id -> dict of name -> Scraper
    scrapers,   \* every Scraper object constructed so far, by identity
    last,       \* the command handled last and what the user saw of it
    nops,       \* number of commands handled
    nget,       \* number of GET requests performed by all threads
    lim,        \* the bounds of the run: commands, Scraper objects, GET requests
    calls       \* SpecRace: the updates received and not yet handled, each with
                \* the position of its handler

vars == <<urls, scrapers, last, nops, nget, lim, calls>>

----------------------------------------------------------------------------
(* Bounds of the model: Spec runs the commands of one chat over two names, *)
(* SpecPoll follows one Scraper over more polls.                           *)

MaxOps == 3

MaxScrapers == 2

MaxGet == 2

PollOps == 3

PollScrapers == 1

PollGet == 3

\* the same three bounds for the runs with two chats (SpecTenants)
TenantOps == 3

TenantScrapers == 2

TenantGet == 2

\* the same three bounds for the runs with handlers taken apart (SpecRace)
RaceOps == 3

RaceScrapers == 2

RaceGet == 2

(* Inputs *)

Chats == {"t1", "t2"}

Names == {"a", "b"}

Endpoints == {"u"}

Bodies == {"A", "B"}

IntervalTokens == {"0", "5", "10"}

----------------------------------------------------------------------------
(* Python values *)

\* Optional[int]: None is <<>>, an int i is <<i>>
None == <<>>

Some(i) == <<i>>

\* int(token): the decimal literals among the tokens of the model; any other
\* token raises ValueError
IntLiterals == ("-1" :> -1) @@ ("0" :> 0) @@ ("5" :> 5) @@ ("10" :> 10)

IsIntLiteral(tok) == tok \in DOMAIN IntLiterals

int(tok) == IntLiterals[tok]

\* dict[str, Scraper]: insertion-ordered, a sequence of <<key, value>> pairs
\* with distinct keys
EmptyDict == <<>>

DictKeys(d) == [k \in 1..Len(d) |-> d[k][1]]

DictHas(d, key) == \E k \in 1..Len(d) : d[k][1] = key

DictGet(d, key) == d[CHOOSE k \in 1..Len(d) : d[k][1] = key][2]

DictSetDrops(d, key, val) == d

DictSet(d, key, val) ==
    IF DictHas(d, key)
    THEN [k \in 1..Len(d) |-> IF d[k][1] = key THEN <<key, val>> ELSE d[k]]
    ELSE Append(d, <<key, val>>)

DictPop(d, key) == SelectSeq(d, LAMBDA p : p[1] # key)

DictValues(d) == {d[k][2] : k \in 1..Len(d)}

----------------------------------------------------------------------------
(* class Scraper *)

DefaultInterval == 15 * 60

InitRejectsNegative(interval) == interval # None /\ interval[1] < 0

\* Scraper.__init__ raises ValueError for a supplied interval <= 0
InitRejects(interval) == interval # None /\ interval[1] <= 0

\* The object Scraper.__init__ builds: a fresh Event (id 0, not set), a
\* Thread not yet started, nothing fetched.
\*   evt         self._evt, the id of the current Event object
\*   flags       the Event objects of this Scraper whose flag is set
\*   pc          the thread: "unstarted", "get0" (the first GET), "wait"
\*               (inside Event.wait), "get" (the GET of the loop body),
\*               "returned" (the loop ended), "raised" (an exception ended it)
\*   waitEvt, waitTimeout   the Event and timeout of the wait in progress
\*   cache       the local cache of _search_for_updates: <<>> before the
\*               first GET returns, <<body>> afterwards
\*   bodies      every body fetched so far; outbox: messages the bot delivered
NewScraper(chat_id, endp, interval) ==
    [ chat_id |-> chat_id, endp |-> endp,
      interval |-> IF interval = None THEN DefaultInterval ELSE interval[1],
      evt |-> 0, flags |-> {}, pc |-> "unstarted",
      waitEvt |-> 0, waitTimeout |-> 0,
      cache |-> <<>>, bodies |-> <<>>, outbox |-> <<>> ]

\* Thread.start raises RuntimeError unless the thread was never started
StartRaises(s) == s.pc # "unstarted"

start(s) == [s EXCEPT !.pc = "get0"]

stop(s) == [s EXCEPT !.flags = @ \cup {s.evt}]

\* timer.setter up to the call of start(): the interval is stored, the
\* current Event is set, a fresh Event replaces it
timerSetter(s, interval) ==
    [stop([s EXCEPT !.interval = interval]) EXCEPT !.evt = s.evt + 1]

EnterWaitOnOwnEvent(s) ==
    [s EXCEPT !.pc = "wait", !.waitEvt = s.evt + 1, !.waitTimeout = s.interval]

\* self._evt.wait(self._interval): the wait is on the Event and the timeout
\* read when it is entered
EnterWait(s) ==
    [s EXCEPT !.pc = "wait", !.waitEvt = s.evt, !.waitTimeout = s.interval]

LeaveWait(s, pc) == [s EXCEPT !.pc = pc, !.waitEvt = 0, !.waitTimeout = 0]

UpdatedMsg(s) == [chat_id |-> s.chat_id, text |-> <<"Updated: ", s.endp>>]

\* the call bot.send_message("invalid endpoint, closing connection...") of the
\* except branch: its one positional argument is bound to chat_id, no text
ErrorCall == [chat_id |-> "invalid endpoint, closing connection...", text |-> <<>>]

\* Bot.send_message(chat_id, text): text is a required parameter, a call
\* without it raises TypeError and delivers nothing
SendRaises(call) == call.text = <<>>

differsNever(body, cache) == FALSE

differs(body, cache) == <<body>> # cache

----------------------------------------------------------------------------
(* What the user sees of a command: the texts passed to reply_text, in order, *)
(* and the exception that left the handler, if any.                          *)

Reply(kind, name, n, names) == [kind |-> kind, name |-> name, n |-> n, names |-> names]

Monitoring(name) == Reply("monitoring: {name}", name, 0, <<>>)

AddUsage == Reply("you have to pass a name and a url to add", "", 0, <<>>)

MustBePositive == Reply("interval must be a positive integer", "", 0, <<>>)

Stopping(name) == Reply("stopping the monitor for: {name}", name, 0, <<>>)

NoActiveMonitor(name) == Reply("no active monitor for: {name}", name, 0, <<>>)

RemoveUsage == Reply("you have to pass the name of an url to remove", "", 0, <<>>)

NothingMonitored == Reply("no urls are being monitored", "", 0, <<>>)

Listing(names) == Reply("\n.join(names)", "", 0, names)

StoppingUser == Reply("stopping the monitor task for your user", "", 0, <<>>)

CurrentTimer(name, n) == Reply("current timer for {name}: {timer}s", name, n, <<>>)

TimerUsage == Reply("you have to pass the name of an url", "", 0, <<>>)

NoSuchUrl == Reply("no such url under monitoring", "", 0, <<>>)

NewTimer(name, n) == Reply("new timer for {name}: {timer}s", name, n, <<>>)

TimerSetUsage == Reply("you have to pass the name of an url and a positive interval", "", 0, <<>>)

\* again: the command handled just before was the same command of the same
\* chat with the same arguments
NoCommand ==
    [op |-> "", chat |-> "", args |-> <<>>, replies |-> <<>>, raised |-> "", again |-> FALSE]

\* the handler of command op returns (or raises) and the dispatcher goes on
Done(op, chat, args, replies, raised) ==
    /\ nops < lim.ops
    /\ last' = [op |-> op, chat |-> chat, args |-> args, replies |-> replies, raised |-> raised,
                again |-> last.op = op /\ last.chat = chat /\ last.args = args]
    /\ nops' = nops + 1
    /\ UNCHANGED <<nget, lim>>

\* a handler that ran from its first line to its last in one step
Handled(op, chat, args, replies, raised) ==
    /\ Done(op, chat, args, replies, raised)
    /\ UNCHANGED calls

\* the dict of a chat that has an entry, else no names
Entry(u, chat) == IF chat \in DOMAIN u THEN u[chat] ELSE EmptyDict

\* if chat_id not in urls: urls[chat_id] = {}
WithEntry(u, chat) == IF chat \in DOMAIN u THEN u ELSE u @@ (chat :> EmptyDict)

WithoutEntry(u, chat) == [c \in DOMAIN u \ {chat} |-> u[c]]

----------------------------------------------------------------------------
(* The command handlers *)

addStopsOnError(chat, args) ==
    /\ IF Len(args) < 2
       THEN /\ UNCHANGED <<urls, scrapers>>
            /\ Handled("add", chat, args, <<AddUsage>>, "")
       ELSE LET name == args[1]
                url == args[2]
                urls1 == WithEntry(urls, chat)
                interval == IF Len(args) = 3 THEN Some(int(args[3])) ELSE None
            IN IF Len(args) = 3 /\ (~IsIntLiteral(args[3]) \/ InitRejects(interval))
               THEN /\ urls' = [urls1 EXCEPT ![chat] = DictPop(@, name)]
                    /\ scrapers' = [i \in 1..Len(scrapers) |->
                                      IF DictHas(urls1[chat], name) /\ i = DictGet(urls1[chat], name)
                                      THEN stop(scrapers[i]) ELSE scrapers[i]]
                    /\ Handled("add", chat, args, <<MustBePositive>>, "")
               ELSE /\ Len(scrapers) < lim.scrapers
                    /\ LET id == Len(scrapers) + 1
                           s == NewScraper(chat, url, interval)
                       IN /\ urls' = [urls1 EXCEPT ![chat] = DictSet(@, name, id)]
                          /\ scrapers' = Append(scrapers, start(s))
                          /\ Handled("add", chat, args, <<Monitoring(name)>>, "")

add(chat, args) ==
    /\ IF Len(args) < 2
       THEN \* context.args[0] or context.args[1] raises IndexError
            /\ UNCHANGED <<urls, scrapers>>
            /\ Handled("add", chat, args, <<AddUsage>>, "")
       ELSE LET name == args[1]
                url == args[2]
                urls1 == WithEntry(urls, chat)
                interval == IF Len(args) = 3 THEN Some(int(args[3])) ELSE None
            IN IF Len(args) = 3 /\ (~IsIntLiteral(args[3]) \/ InitRejects(interval))
               THEN \* int(...) or Scraper(...) raises ValueError
                    /\ urls' = urls1
                    /\ UNCHANGED scrapers
                    /\ Handled("add", chat, args, <<MustBePositive>>, "")
               ELSE /\ Len(scrapers) < lim.scrapers
                    /\ LET id == Len(scrapers) + 1
                           s == NewScraper(chat, url, interval)
                       IN /\ urls' = [urls1 EXCEPT ![chat] = DictSet(@, name, id)]
                          /\ IF StartRaises(s)
                             THEN /\ scrapers' = Append(scrapers, s)
                                  /\ Handled("add", chat, args, <<>>, "RuntimeError")
                             ELSE /\ scrapers' = Append(scrapers, start(s))
                                  /\ Handled("add", chat, args, <<Monitoring(name)>>, "")

removeKeepsName(chat, args) ==
    /\ Len(args) >= 1
    /\ chat \in DOMAIN urls
    /\ DictHas(urls[chat], args[1])
    /\ scrapers' = [scrapers EXCEPT ![DictGet(urls[chat], args[1])] = stop(@)]
    /\ UNCHANGED urls
    /\ Handled("remove", chat, args, <<Stopping(args[1])>>, "")

remove(chat, args) ==
    /\ IF Len(args) < 1
       THEN /\ UNCHANGED <<urls, scrapers>>
            /\ Handled("remove", chat, args, <<RemoveUsage>>, "")
       ELSE IF chat \notin DOMAIN urls
       THEN \* urls[chat_id] raises KeyError, which no except clause catches
            /\ UNCHANGED <<urls, scrapers>>
            /\ Handled("remove", chat, args, <<>>, "KeyError")
       ELSE LET name == args[1] IN
            IF DictHas(urls[chat], name)
            THEN LET id == DictGet(urls[chat], name) IN
                 /\ urls' = [urls EXCEPT ![chat] = DictPop(@, name)]
                 /\ scrapers' = [scrapers EXCEPT ![id] = stop(@)]
                 /\ Handled("remove", chat, args, <<Stopping(name)>>, "")
            ELSE /\ UNCHANGED <<urls, scrapers>>
                 /\ Handled("remove", chat, args, <<NoActiveMonitor(name)>>, "")

list_urlsResets(chat) ==
    /\ urls' = [WithEntry(urls, chat) EXCEPT ![chat] = EmptyDict]
    /\ UNCHANGED scrapers
    /\ Handled("list", chat, <<>>, <<NothingMonitored>>, "")

list_urls(chat) ==
    /\ IF chat \notin DOMAIN urls \/ Len(urls[chat]) = 0
       THEN /\ urls' = [WithEntry(urls, chat) EXCEPT ![chat] = EmptyDict]
            /\ UNCHANGED scrapers
            /\ Handled("list", chat, <<>>, <<NothingMonitored>>, "")
       ELSE /\ UNCHANGED <<urls, scrapers>>
            /\ Handled("list", chat, <<>>, <<Listing(DictKeys(urls[chat]))>>, "")

endKeepsEntry(chat) ==
    /\ UNCHANGED urls
    /\ scrapers' = [i \in 1..Len(scrapers) |->
                      IF i \in DictValues(Entry(urls, chat)) THEN stop(scrapers[i])
                      ELSE scrapers[i]]
    /\ Handled("end", chat, <<>>,
               [k \in 1..Len(Entry(urls, chat)) |-> Stopping(Entry(urls, chat)[k][1])]
                 \o <<StoppingUser>>, "")

endEveryone(chat) ==
    /\ urls' = <<>>
    /\ scrapers' = [i \in 1..Len(scrapers) |-> stop(scrapers[i])]
    /\ Handled("end", chat, <<>>,
               [k \in 1..Len(Entry(urls, chat)) |-> Stopping(Entry(urls, chat)[k][1])]
                 \o <<StoppingUser>>, "")

end(chat) ==
    /\ IF chat \in DOMAIN urls
       THEN LET user == urls[chat] IN
            /\ urls' = WithoutEntry(urls, chat)
            /\ scrapers' = [i \in 1..Len(scrapers) |->
                              IF i \in DictValues(user) THEN stop(scrapers[i])
                              ELSE scrapers[i]]
            /\ Handled("end", chat, <<>>,
                       [k \in 1..Len(user) |-> Stopping(user[k][1])] \o <<StoppingUser>>, "")
       ELSE /\ UNCHANGED <<urls, scrapers>>
            /\ Handled("end", chat, <<>>, <<StoppingUser>>, "")

timerCreatesEntry(chat, args) ==
    /\ urls' = WithEntry(urls, chat)
    /\ UNCHANGED scrapers
    /\ Handled("timer", chat, args, <<NoSuchUrl>>, "")

timer(chat, args) ==
    /\ UNCHANGED <<urls, scrapers>>
    /\ IF Len(args) < 1
       THEN Handled("timer", chat, args, <<TimerUsage>>, "")
       ELSE IF chat \notin DOMAIN urls \/ ~DictHas(urls[chat], args[1])
       THEN \* urls[chat_id][name] raises KeyError
            Handled("timer", chat, args, <<NoSuchUrl>>, "")
       ELSE Handled("timer", chat, args,
                    <<CurrentTimer(args[1], scrapers[DictGet(urls[chat], args[1])].interval)>>, "")

timer_set(chat, args) ==
    /\ IF Len(args) < 2
       THEN /\ UNCHANGED <<urls, scrapers>>
            /\ Handled("set_timer", chat, args, <<TimerSetUsage>>, "")
       ELSE IF ~IsIntLiteral(args[2])
       THEN \* int(context.args[1]) raises ValueError
            /\ UNCHANGED <<urls, scrapers>>
            /\ Handled("set_timer", chat, args, <<MustBePositive>>, "")
       ELSE IF int(args[2]) <= 0
       THEN /\ UNCHANGED <<urls, scrapers>>
            /\ Handled("set_timer", chat, args, <<MustBePositive>>, "")
       ELSE IF chat \notin DOMAIN urls \/ ~DictHas(urls[chat], args[1])
       THEN \* urls[chat_id][name] raises KeyError
            /\ UNCHANGED <<urls, scrapers>>
            /\ Handled("set_timer", chat, args, <<NoSuchUrl>>, "")
       ELSE LET name == args[1]
                id == DictGet(urls[chat], name)
                s == timerSetter(scrapers[id], int(args[2]))
            IN /\ UNCHANGED urls
               /\ IF StartRaises(s)
                  THEN \* self.start() raises RuntimeError out of the setter and
                       \* out of the handler: no except clause catches it
                       /\ scrapers' = [scrapers EXCEPT ![id] = s]
                       /\ Handled("set_timer", chat, args, <<>>, "RuntimeError")
                  ELSE /\ scrapers' = [scrapers EXCEPT ![id] = start(s)]
                       /\ Handled("set_timer", chat, args, <<NewTimer(name, s.interval)>>, "")

----------------------------------------------------------------------------
(* Scraper._search_for_updates, one action per step of the thread of Scraper i *)

\* cache = requests.get(self._endp).text, then the first self._evt.wait(...)
first_get_ok(i, body) ==
    /\ scrapers[i].pc = "get0"
    /\ nget < lim.gets
    /\ nget' = nget + 1
    /\ scrapers' = [scrapers EXCEPT ![i] =
                      EnterWait([@ EXCEPT !.cache = <<body>>, !.bodies = Append(@, body)])]
    /\ UNCHANGED <<urls, last, nops, lim, calls>>

\* the first GET raises: it is outside the try, the exception ends the thread
first_get_fails(i) ==
    /\ scrapers[i].pc = "get0"
    /\ nget < lim.gets
    /\ nget' = nget + 1
    /\ scrapers' = [scrapers EXCEPT ![i].pc = "raised"]
    /\ UNCHANGED <<urls, last, nops, lim, calls>>

\* Event.wait returns True: the Event waited on is set; the loop ends
wait_signalled(i) ==
    /\ scrapers[i].pc = "wait"
    /\ scrapers[i].waitEvt \in scrapers[i].flags
    /\ scrapers' = [scrapers EXCEPT ![i] = LeaveWait(@, "returned")]
    /\ UNCHANGED <<urls, last, nops, nget, lim, calls>>

wait_timeoutAnyway(i) ==
    /\ scrapers[i].pc = "wait"
    /\ nget < lim.gets
    /\ scrapers' = [scrapers EXCEPT ![i] = LeaveWait(@, "get")]
    /\ UNCHANGED <<urls, last, nops, nget, lim, calls>>

\* Event.wait returns False: the timeout elapsed with the Event not set
wait_timeout(i) ==
    /\ scrapers[i].pc = "wait"
    /\ scrapers[i].waitEvt \notin scrapers[i].flags
    /\ nget < lim.gets
    /\ scrapers' = [scrapers EXCEPT ![i] = LeaveWait(@, "get")]
    /\ UNCHANGED <<urls, last, nops, nget, lim, calls>>

\* the GET of the loop body returns: compare, notify, replace the cache, and
\* enter the next wait
get_ok(i, body) ==
    /\ scrapers[i].pc = "get"
    /\ nget < lim.gets
    /\ nget' = nget + 1
    /\ LET s == scrapers[i]
           s1 == [s EXCEPT !.bodies = Append(@, body)]
           s2 == IF differs(body, s.cache)
                 THEN [s1 EXCEPT !.outbox = Append(@, UpdatedMsg(s)), !.cache = <<body>>]
                 ELSE s1
       IN scrapers' = [scrapers EXCEPT ![i] = EnterWait(s2)]
    /\ UNCHANGED <<urls, last, nops, lim, calls>>

get_failsUnregisters(i) ==
    /\ scrapers[i].pc = "get"
    /\ nget < lim.gets
    /\ nget' = nget + 1
    /\ scrapers' = [scrapers EXCEPT ![i].pc = "raised"]
    /\ urls' = [c \in DOMAIN urls |-> SelectSeq(urls[c], LAMBDA p : p[2] # i)]
    /\ UNCHANGED <<last, nops, lim, calls>>

\* the GET of the loop body raises: the except branch calls send_message and
\* returns
get_fails(i) ==
    /\ scrapers[i].pc = "get"
    /\ nget < lim.gets
    /\ nget' = nget + 1
    /\ scrapers' = [scrapers EXCEPT ![i] =
                      IF SendRaises(ErrorCall)
                      THEN [@ EXCEPT !.pc = "raised"]
                      ELSE [@ EXCEPT !.pc = "returned", !.outbox = Append(@, ErrorCall)]]
    /\ UNCHANGED <<urls, last, nops, lim, calls>>

----------------------------------------------------------------------------
(* context.args of the commands the model issues *)

AddArgs(names, tokens) ==
    {<<>>} \cup {<<n>> : n \in names}
           \cup {<<n, u>> : n \in names, u \in Endpoints}
           \cup {<<n, u, t>> : n \in names, u \in Endpoints, t \in tokens}

NameArgs(names) == {<<>>} \cup {<<n>> : n \in names}

TimerSetArgs(names, tokens) ==
    {<<>>} \cup {<<n>> : n \in names} \cup {<<n, t>> : n \in names, t \in tokens}

\* app.py: user_urls = {}, no command handled, no Scraper constructed
Start(limits) ==
    /\ urls = <<>>
    /\ scrapers = <<>>
    /\ last = NoCommand
    /\ nops = 0
    /\ nget = 0
    /\ lim = limits
    /\ calls = <<>>

\* one command of a chat is dispatched to its handler, or one thread takes a step
Run(chats, names, tokens, bodies) ==
    \/ \E chat \in chats, args \in AddArgs(names, tokens) : add(chat, args)
    \/ \E chat \in chats, args \in NameArgs(names) : remove(chat, args)
    \/ \E chat \in chats : list_urls(chat)
    \/ \E chat \in chats : end(chat)
    \/ \E chat \in chats, args \in NameArgs(names) : timer(chat, args)
    \/ \E chat \in chats, args \in TimerSetArgs(names, tokens) : timer_set(chat, args)
    \/ \E i \in 1..Len(scrapers), body \in bodies : first_get_ok(i, body)
    \/ \E i \in 1..Len(scrapers) : first_get_fails(i)
    \/ \E i \in 1..Len(scrapers) : wait_signalled(i)
    \/ \E i \in 1..Len(scrapers) : wait_timeout(i)
    \/ \E i \in 1..Len(scrapers), body \in bodies : get_ok(i, body)
    \/ \E i \in 1..Len(scrapers) : get_fails(i)

Init == Start([ops |-> MaxOps, scrapers |-> MaxScrapers, gets |-> MaxGet])

Next == Run({"t1"}, Names, IntervalTokens, {"A"})

Spec == Init /\ [][Next]_vars

PollInit == Start([ops |-> PollOps, scrapers |-> PollScrapers, gets |-> PollGet])

PollNext == Run({"t1"}, {"a"}, {"5"}, Bodies)

SpecPoll == PollInit /\ [][PollNext]_vars

\* two chats that use the same name
TenantInit == Start([ops |-> TenantOps, scrapers |-> TenantScrapers, gets |-> TenantGet])

TenantNext == Run(Chats, {"a"}, {"5"}, {"A"})

SpecTenants == TenantInit /\ [][TenantNext]_vars

----------------------------------------------------------------------------
(* add, list_urls and end statement by statement.  calls[k].pc is the      *)
(* position of the handler: "queued" before the dispatcher calls it.       *)

NewCall(op, chat, args) ==
    [op |-> op, chat |-> chat, args |-> args, pc |-> "queued",
     empty |-> FALSE, user |-> EmptyDict]

Running(c) == c.pc # "queued"

\* the updater thread receives a command and puts it in the update queue
issue(op, chat, args) ==
    /\ nops + Len(calls) < lim.ops
    /\ calls' = Append(calls, NewCall(op, chat, args))
    /\ UNCHANGED <<urls, scrapers, last, nops, nget, lim>>

DispatchAlways(cs) == TRUE

\* CommandHandler(...) without run_async: the dispatcher thread calls the
\* handler itself and takes the next update when the handler has returned
DispatchFree(cs) == \A k \in 1..Len(cs) : ~Running(cs[k])

\* the dispatcher takes the oldest update of the queue and calls its handler
dispatch(k) ==
    /\ calls[k].pc = "queued"
    /\ \A j \in 1..(k - 1) : Running(calls[j])
    /\ DispatchFree(calls)
    /\ calls' = [calls EXCEPT ![k].pc = "begin"]
    /\ UNCHANGED <<urls, scrapers, last, nops, nget, lim>>

Goto(k, pc) ==
    /\ calls' = [calls EXCEPT ![k].pc = pc]
    /\ UNCHANGED <<last, nops, nget, lim>>

Return(k, replies, raised) ==
    /\ Done(calls[k].op, calls[k].chat, calls[k].args, replies, raised)
    /\ calls' = SubSeq(calls, 1, k - 1) \o SubSeq(calls, k + 1, Len(calls))

\* add, lines 134-138: the arguments and the dict of the chat
add_entry(k) ==
    /\ calls[k].op = "add" /\ calls[k].pc = "begin"
    /\ UNCHANGED scrapers
    /\ IF Len(calls[k].args) < 2
       THEN /\ UNCHANGED urls
            /\ Return(k, <<AddUsage>>, "")
       ELSE /\ urls' = WithEntry(urls, calls[k].chat)
            /\ Goto(k, "bind")

\* add, lines 140-144: urls[chat_id][name] = Scraper(...)
add_bind(k) ==
    /\ calls[k].op = "add" /\ calls[k].pc = "bind"
    /\ LET chat == calls[k].chat
           args == calls[k].args
           interval == IF Len(args) = 3 THEN Some(int(args[3])) ELSE None
       IN IF Len(args) = 3 /\ (~IsIntLiteral(args[3]) \/ InitRejects(interval))
          THEN /\ UNCHANGED <<urls, scrapers>>
               /\ Return(k, <<MustBePositive>>, "")
          ELSE IF chat \notin DOMAIN urls
          THEN \* urls[chat_id] raises KeyError, the new Scraper is dropped
               /\ UNCHANGED <<urls, scrapers>>
               /\ Return(k, <<>>, "KeyError")
          ELSE /\ Len(scrapers) < lim.scrapers
               /\ scrapers' = Append(scrapers, NewScraper(chat, args[2], interval))
               /\ urls' = [urls EXCEPT ![chat] = DictSet(@, args[1], Len(scrapers) + 1)]
               /\ Goto(k, "start")

\* add, lines 146-147: urls[chat_id][name].start() and the reply
add_start(k) ==
    /\ calls[k].op = "add" /\ calls[k].pc = "start"
    /\ UNCHANGED urls
    /\ LET chat == calls[k].chat
           name == calls[k].args[1]
       IN IF chat \notin DOMAIN urls \/ ~DictHas(urls[chat], name)
          THEN /\ UNCHANGED scrapers
               /\ Return(k, <<>>, "KeyError")
          ELSE IF StartRaises(scrapers[DictGet(urls[chat], name)])
          THEN /\ UNCHANGED scrapers
               /\ Return(k, <<>>, "RuntimeError")
          ELSE /\ scrapers' = [scrapers EXCEPT ![DictGet(urls[chat], name)] = start(@)]
               /\ Return(k, <<Monitoring(name)>>, "")

\* list_urls, line 184: the condition
list_check(k) ==
    /\ calls[k].op = "list" /\ calls[k].pc = "begin"
    /\ calls' = [calls EXCEPT
                   ![k].pc = "reply",
                   ![k].empty = (calls[k].chat \notin DOMAIN urls
                                 \/ Len(urls[calls[k].chat]) = 0)]
    /\ UNCHANGED <<urls, scrapers, last, nops, nget, lim>>

\* list_urls, lines 185-188: the branch taken
list_reply(k) ==
    /\ calls[k].op = "list" /\ calls[k].pc = "reply"
    /\ UNCHANGED scrapers
    /\ LET chat == calls[k].chat
       IN IF calls[k].empty
          THEN /\ urls' = [WithEntry(urls, chat) EXCEPT ![chat] = EmptyDict]
               /\ Return(k, <<NothingMonitored>>, "")
          ELSE IF chat \notin DOMAIN urls
          THEN /\ UNCHANGED urls
               /\ Return(k, <<>>, "KeyError")
          ELSE /\ UNCHANGED urls
               /\ Return(k, <<Listing(DictKeys(urls[chat]))>>, "")

\* end, lines 199-200: user = urls.pop(chat_id)
end_pop(k) ==
    /\ calls[k].op = "end" /\ calls[k].pc = "begin"
    /\ UNCHANGED scrapers
    /\ IF calls[k].chat \in DOMAIN urls
       THEN /\ urls' = WithoutEntry(urls, calls[k].chat)
            /\ calls' = [calls EXCEPT ![k].pc = "stops", ![k].user = urls[calls[k].chat]]
            /\ UNCHANGED <<last, nops, nget, lim>>
       ELSE /\ UNCHANGED urls
            /\ Return(k, <<StoppingUser>>, "")

\* end, lines 201-204: the stops and the replies
end_stops(k) ==
    /\ calls[k].op = "end" /\ calls[k].pc = "stops"
    /\ UNCHANGED urls
    /\ LET user == calls[k].user
       IN /\ scrapers' = [i \in 1..Len(scrapers) |->
                            IF i \in DictValues(user) THEN stop(scrapers[i])
                            ELSE scrapers[i]]
          /\ Return(k, [j \in 1..Len(user) |-> Stopping(user[j][1])] \o <<StoppingUser>>, "")

\* the commands of the runs with handlers taken apart
RaceCommands(names, tokens) ==
    {<<"add", a>> : a \in AddArgs(names, tokens)} \cup {<<"list", <<>>>>, <<"end", <<>>>>}

RaceInit == Start([ops |-> RaceOps, scrapers |-> RaceScrapers, gets |-> RaceGet])

RaceNext ==
    \/ \E cmd \in RaceCommands(Names, {"5"}) : issue(cmd[1], "t1", cmd[2])
    \/ \E k \in 1..Len(calls) : dispatch(k)
    \/ \E k \in 1..Len(calls) : add_entry(k)
    \/ \E k \in 1..Len(calls) : add_bind(k)
    \/ \E k \in 1..Len(calls) : add_start(k)
    \/ \E k \in 1..Len(calls) : list_check(k)
    \/ \E k \in 1..Len(calls) : list_reply(k)
    \/ \E k \in 1..Len(calls) : end_pop(k)
    \/ \E k \in 1..Len(calls) : end_stops(k)
    \/ \E i \in 1..Len(scrapers) : first_get_ok(i, "A")
    \/ \E i \in 1..Len(scrapers) : first_get_fails(i)
    \/ \E i \in 1..Len(scrapers) : wait_signalled(i)
    \/ \E i \in 1..Len(scrapers) : wait_timeout(i)
    \/ \E i \in 1..Len(scrapers) : get_ok(i, "A")
    \/ \E i \in 1..Len(scrapers) : get_fails(i)

SpecRace == RaceInit /\ [][RaceNext]_vars

\* one step of the thread of Scraper i
ThreadStep(i) ==
    /\ i \in 1..Len(scrapers)
    /\ \/ \E body \in Bodies : first_get_ok(i, body)
       \/ first_get_fails(i)
       \/ wait_signalled(i)
       \/ wait_timeout(i)
       \/ \E body \in Bodies : get_ok(i, body)
       \/ get_fails(i)

\* SpecPoll with every started thread scheduled again and again, every GET
\* answered and every wait ended by its Event or its timeout
FairPoll == SpecPoll /\ \A i \in 1..(PollScrapers + 1) : WF_vars(ThreadStep(i))

----------------------------------------------------------------------------
(* The claims.  A command "returns" in the step that handles it: nops grows   *)
(* and last' tells the command and what the user saw of it.                   *)

Returns(op) == nops' = nops + 1 /\ last'.op = op

Registered(u, chat, name) == chat \in DOMAIN u /\ DictHas(u[chat], name)

SeqToSet(s) == {s[k] : k \in 1..Len(s)}

\* list(tenant): the names list_urls replies with
Listed(u, chat) == SeqToSet(DictKeys(Entry(u, chat)))

\* the Scraper registered under (chat, name)
Watcher(u, chat, name) == DictGet(u[chat], name)

\* the loop of Scraper s is running and will not end at its current wait
LoopActive(s) ==
    \/ s.pc \in {"get0", "get"}
    \/ s.pc = "wait" /\ s.waitEvt \notin s.flags

Signalled(s) == s.evt \in s.flags

PositiveToken(tok) == IsIntLiteral(tok) /\ int(tok) > 0

NonPositiveToken(tok) == IsIntLiteral(tok) /\ int(tok) <= 0

Changes(s) == Cardinality({k \in 1..Len(s.outbox) : s.outbox[k] = UpdatedMsg(s)})

Errors(s) == Cardinality({k \in 1..Len(s.outbox) : s.outbox[k] # UpdatedMsg(s)})

\* C1: whenever set_timer name i, i > 0, returns for a registered (chat, name)
\* whose poll loop was active, the poll loop of that slot is active, and if it
\* is waiting it waits with timeout i.
C1_IntervalReset ==
    [][ (/\ Returns("set_timer")
         /\ Len(last'.args) = 2
         /\ PositiveToken(last'.args[2])
         /\ Registered(urls, last'.chat, last'.args[1])
         /\ LoopActive(scrapers[Watcher(urls, last'.chat, last'.args[1])]))
        => LET s == scrapers'[Watcher(urls', last'.chat, last'.args[1])]
           IN /\ LoopActive(s)
              /\ s.pc = "wait" => s.waitTimeout = int(last'.args[2]) ]_vars

\* C2: whenever the GET of a loop iteration fails, exactly one error message
\* has been delivered for that Scraper, no change message is added, and its
\* thread has ended.
C2_FetchFailure ==
    [][ \A i \in 1..Len(scrapers) :
          (scrapers[i].pc = "get" /\ scrapers'[i].pc \notin {"get", "wait"})
          => /\ Errors(scrapers'[i]) = 1
             /\ Changes(scrapers'[i]) = Changes(scrapers[i])
             /\ scrapers'[i].pc \in {"returned", "raised"} ]_vars

AdjacentUnequal(bodies) ==
    Cardinality({k \in 1..(Len(bodies) - 1) : bodies[k] # bodies[k + 1]})

\* C3: for every Scraper, the number of change messages delivered equals the
\* number of adjacent unequal pairs in the sequence of bodies it fetched, the
\* messages go to its chat, and its cache is the body fetched last.
C3_DiffCorrect ==
    \A i \in 1..Len(scrapers) :
        LET s == scrapers[i] IN
        /\ Changes(s) = AdjacentUnequal(s.bodies)
        /\ Len(s.outbox) = Changes(s)
        /\ s.bodies # <<>> => s.cache = <<s.bodies[Len(s.bodies)]>>

C3_Witness ==
    \E i \in 1..Len(scrapers) :
        scrapers[i].bodies = <<"A", "A", "B">> /\ Changes(scrapers[i]) = 1

\* C4: add with an interval <= 0 replies "interval must be a positive integer",
\* constructs and starts no Scraper and changes no binding; set_timer with an
\* interval <= 0 replies the same and changes neither the dict nor any Scraper
\* (interval, Event and flag included).
C4_InvalidInterval ==
    [][ /\ (Returns("add") /\ Len(last'.args) = 3 /\ NonPositiveToken(last'.args[3]))
           => /\ last'.replies = <<MustBePositive>> /\ last'.raised = ""
              /\ scrapers' = scrapers
              /\ \A c \in Chats : Entry(urls', c) = Entry(urls, c)
        /\ (Returns("set_timer") /\ Len(last'.args) = 2 /\ NonPositiveToken(last'.args[2]))
           => /\ last'.replies = <<MustBePositive>> /\ last'.raised = ""
              /\ scrapers' = scrapers
              /\ urls' = urls ]_vars

C4_Witness ==
    /\ last.op = "set_timer" /\ Len(last.args) = 2 /\ last.args[2] = "0"
    /\ Registered(urls, last.chat, last.args[1])
    /\ last.replies = <<MustBePositive>>
    /\ LoopActive(scrapers[Watcher(urls, last.chat, last.args[1])])

ValidAddArgs(args) == Len(args) = 2 \/ (Len(args) = 3 /\ PositiveToken(args[3]))

\* C5: when add returns for a name, a url and an absent or positive interval,
\* it replies "monitoring", the name is listed for the chat, and the Scraper
\* bound to it is started and has fetched nothing yet.
C5_AddThenList ==
    [][ (Returns("add") /\ ValidAddArgs(last'.args))
        => /\ last'.replies = <<Monitoring(last'.args[1])>> /\ last'.raised = ""
           /\ last'.args[1] \in Listed(urls', last'.chat)
           /\ LET s == scrapers'[Watcher(urls', last'.chat, last'.args[1])]
              IN s.pc = "get0" /\ s.bodies = <<>> /\ s.endp = last'.args[2] ]_vars

C5_Witness ==
    /\ last.op = "add" /\ last.args = <<"b", "u", "5">>
    /\ DictKeys(Entry(urls, last.chat)) = <<"a", "b">>
    /\ scrapers[Watcher(urls, last.chat, "b")].pc = "get0"

\* C6: remove of a registered name replies "stopping the monitor", the same
\* remove handled next replies "no active monitor", and after either the name
\* is not listed for the chat.
C6_RemoveTwice ==
    [][ (Returns("remove") /\ Len(last'.args) = 1)
        => /\ last'.args[1] \notin Listed(urls', last'.chat)
           /\ Registered(urls, last'.chat, last'.args[1])
              => last'.replies = <<Stopping(last'.args[1])>> /\ last'.raised = ""
           /\ (last'.again /\ last.replies = <<Stopping(last.args[1])>>)
              => last'.replies = <<NoActiveMonitor(last'.args[1])>> /\ last'.raised = "" ]_vars

C6_Witness ==
    /\ last.op = "remove" /\ last.again /\ nops = 3
    /\ last.replies = <<NoActiveMonitor("a")>>
    /\ Len(scrapers) = 1 /\ Signalled(scrapers[1])
    /\ "a" \notin Listed(urls, last.chat)

\* C7: remove of a name that has no Scraper, for a chat with or without an
\* entry, replies "no active monitor", raises nothing and changes nothing.
C7_RemoveAbsent ==
    [][ (/\ Returns("remove") /\ Len(last'.args) = 1
         /\ ~Registered(urls, last'.chat, last'.args[1]))
        => /\ last'.replies = <<NoActiveMonitor(last'.args[1])>>
           /\ last'.raised = ""
           /\ urls' = urls /\ scrapers' = scrapers ]_vars

\* C8: set_timer name i, i > 0, for a registered (chat, name) raises nothing,
\* replies the new timer i, and the interval of the Scraper is then i; and
\* set_timer never ends in anything but a reply.
C8_SetIntervalReturns ==
    [][ Returns("set_timer")
        => /\ last'.raised = ""
           /\ (/\ Len(last'.args) = 2 /\ PositiveToken(last'.args[2])
               /\ Registered(urls, last'.chat, last'.args[1]))
              => /\ last'.replies = <<NewTimer(last'.args[1], int(last'.args[2]))>>
                 /\ scrapers'[Watcher(urls', last'.chat, last'.args[1])].interval
                      = int(last'.args[2]) ]_vars

\* C9: timer name, and set_timer name i with i > 0, for a (chat, name) that has
\* no Scraper - the chat without an entry, or with an entry lacking the name -
\* reply "no such url under monitoring", raise nothing, and leave the dict
\* (no entry is created) and every Scraper unchanged.
C9_NotFound ==
    [][ (/\ \/ Returns("timer") /\ Len(last'.args) = 1
            \/ Returns("set_timer") /\ Len(last'.args) = 2 /\ PositiveToken(last'.args[2])
         /\ ~Registered(urls, last'.chat, last'.args[1]))
        => /\ last'.replies = <<NoSuchUrl>> /\ last'.raised = ""
           /\ urls' = urls /\ scrapers' = scrapers ]_vars

C9_Witness ==
    /\ last.op = "set_timer" /\ last.args = <<"b", "10">>
    /\ last.replies = <<NoSuchUrl>>
    /\ Registered(urls, last.chat, "a") /\ ~Registered(urls, last.chat, "b")

\* C10: end sets the current Event of every Scraper registered for the chat,
\* deletes the entry of the chat, replies "stopping the monitor" for exactly the
\* names that were registered (none for a chat without entry) and then the
\* closing text; afterwards no name is listed for the chat.
C10_RemoveAll ==
    [][ Returns("end")
        => LET user == Entry(urls, last'.chat)
               n == Len(last'.replies)
           IN /\ \A i \in DictValues(user) : Signalled(scrapers'[i])
              /\ last'.chat \notin DOMAIN urls'
              /\ last'.raised = ""
              /\ n = Len(user) + 1
              /\ last'.replies[n] = StoppingUser
              /\ \A k \in 1..Len(user) : last'.replies[k] = Stopping(user[k][1])
              /\ Listed(urls', last'.chat) = {} ]_vars

C10_Witness ==
    /\ last.op = "end" /\ last.replies = <<Stopping("a"), Stopping("b"), StoppingUser>>
    /\ last.chat \notin DOMAIN urls
    /\ \A i \in 1..Len(scrapers) : Signalled(scrapers[i])
    /\ Len(scrapers) = 2

\* C11: list for a chat with no name registered (with or without an entry)
\* replies "no urls are being monitored" and raises nothing, and its only
\* effect is that the chat has an (empty) entry; list for a chat with names
\* replies the names and changes nothing; list never changes a Scraper or a
\* binding.
C11_ListEmpty ==
    [][ Returns("list")
        => /\ last'.raised = ""
           /\ scrapers' = scrapers
           /\ \A c \in Chats : Entry(urls', c) = Entry(urls, c)
           /\ IF Listed(urls, last'.chat) = {}
              THEN /\ last'.replies = <<NothingMonitored>>
                   /\ urls' = WithEntry(urls, last'.chat)
              ELSE /\ last'.replies = <<Listing(DictKeys(urls[last'.chat]))>>
                   /\ urls' = urls ]_vars

C11_Witness ==
    /\ last.op = "list" /\ nops = 1
    /\ last.replies = <<NothingMonitored>>
    /\ urls = (last.chat :> EmptyDict)

Ended(s) == s.pc \in {"returned", "raised"}

\* C12: for a Scraper whose current Event is set (stop() was called by remove
\* or end): a wait in progress is on a set Event and can only end the loop,
\* with nothing fetched and nothing sent; a GET in progress is followed by the
\* end of the thread or by a wait on a set Event, so it is the last GET; and a
\* thread that has ended stays ended.
C12_StopBounded ==
    [][ \A i \in 1..Len(scrapers) :
          LET s == scrapers[i]
              t == scrapers'[i]
          IN Signalled(s)
             => /\ s.pc = "wait"
                   => /\ s.waitEvt \in s.flags
                      /\ t.pc \in {"wait", "returned"}
                      /\ t.bodies = s.bodies /\ t.outbox = s.outbox
                /\ (s.pc \in {"get0", "get"} /\ t.pc # s.pc)
                   => \/ t.pc = "raised"
                      \/ t.pc = "wait" /\ t.waitEvt \in t.flags
                /\ Ended(s) => t.pc = s.pc /\ t.bodies = s.bodies /\ t.outbox = s.outbox ]_vars

C12_Witness ==
    /\ last.op = "remove"
    /\ \E i \in 1..Len(scrapers) :
         /\ Signalled(scrapers[i]) /\ scrapers[i].pc = "returned"
         /\ Len(scrapers[i].bodies) = 2

\* C13: when the first GET of a started Scraper fails, its thread goes on to
\* the wait with an empty cache.
C13_BaselineFailure ==
    [][ \A i \in 1..Len(scrapers) :
          (/\ scrapers[i].pc = "get0" /\ scrapers'[i].pc # "get0"
           /\ scrapers'[i].bodies = <<>>)
          => scrapers'[i].pc = "wait" /\ scrapers'[i].cache = <<>> ]_vars

Stopped(i) == i \in 1..Len(scrapers) /\ Signalled(scrapers[i])

\* the thread has ended, or it is in a GET that the bound of the run leaves
\* unanswered
Finished(i) ==
    /\ i \in 1..Len(scrapers)
    /\ \/ Ended(scrapers[i])
       \/ nget = lim.gets /\ scrapers[i].pc \in {"get0", "get"}

C16_OneLoopPerName ==
    [][ (/\ Returns("add") /\ ValidAddArgs(last'.args)
         /\ Registered(urls, last'.chat, last'.args[1]))
        => ~LoopActive(scrapers'[Watcher(urls, last'.chat, last'.args[1])]) ]_vars

\* the loop of Scraper s ended on a failed GET
FailedPoll(s) == s.pc = "raised" /\ s.bodies # <<>>

\* C17: the step in which a poll GET fails changes neither the dict nor what
\* any command returned; a name bound to a Scraper whose loop ended that way
\* stays listed until remove or end of its chat, and bound to that Scraper
\* until then or until add rebinds it; timer for such a name replies the
\* interval of the Scraper and raises nothing.
C17_StaleEntry ==
    [][ /\ \A i \in 1..Len(scrapers) :
             (scrapers[i].pc = "get" /\ Ended(scrapers'[i]))
             => /\ urls' = urls /\ last' = last
                /\ scrapers'[i].interval = scrapers[i].interval
        /\ \A c \in Chats, n \in Names :
             (Registered(urls, c, n) /\ FailedPoll(scrapers[Watcher(urls, c, n)]))
             => /\ \/ n \in Listed(urls', c)
                   \/ Returns("remove") /\ last'.chat = c
                   \/ Returns("end") /\ last'.chat = c
                /\ \/ Registered(urls', c, n) /\ Watcher(urls', c, n) = Watcher(urls, c, n)
                   \/ Returns("remove") /\ last'.chat = c
                   \/ Returns("end") /\ last'.chat = c
                   \/ Returns("add") /\ last'.chat = c
        /\ (/\ Returns("timer") /\ Len(last'.args) = 1
            /\ Registered(urls, last'.chat, last'.args[1]))
           => /\ last'.raised = ""
              /\ last'.replies =
                   <<CurrentTimer(last'.args[1],
                                  scrapers[Watcher(urls, last'.chat, last'.args[1])].interval)>> ]_vars

C17_Witness ==
    /\ last.op = "timer" /\ last.replies = <<CurrentTimer("a", 5)>>
    /\ Registered(urls, last.chat, "a")
    /\ FailedPoll(scrapers[Watcher(urls, last.chat, "a")])

\* C18: every Scraper bound in the dict has an interval > 0, and the Scraper
\* bound by an add without interval has interval 900.
C18_PositiveInterval ==
    /\ \A c \in DOMAIN urls : \A i \in DictValues(urls[c]) :
          scrapers[i].interval \in Nat \ {0}
    /\ (last.op = "add" /\ Len(last.args) = 2)
       => scrapers[Watcher(urls, last.chat, last.args[1])].interval = 900

C18_Witness ==
    /\ last.op = "set_timer" /\ last.args = <<"b", "10">>
    /\ Len(Entry(urls, last.chat)) = 2
    /\ scrapers[Watcher(urls, last.chat, "a")].interval = 900
    /\ scrapers[Watcher(urls, last.chat, "b")].interval = 10

\* C19: a command of one chat leaves every other chat's entry in the dict
\* (present or not, its names and the Scrapers bound to them) unchanged, and
\* the interval, the Event and the set Events of those Scrapers unchanged.
C19_TenantIsolation ==
    [][ nops' = nops + 1
        => \A c \in Chats \ {last'.chat} :
             /\ (c \in DOMAIN urls') = (c \in DOMAIN urls)
             /\ Entry(urls', c) = Entry(urls, c)
             /\ \A i \in DictValues(Entry(urls, c)) :
                  /\ scrapers'[i].interval = scrapers[i].interval
                  /\ scrapers'[i].evt = scrapers[i].evt
                  /\ scrapers'[i].flags = scrapers[i].flags ]_vars

C19_Witness ==
    /\ last.op = "end" /\ last.chat = "t1"
    /\ last.replies = <<Stopping("a"), StoppingUser>>
    /\ Registered(urls, "t2", "a")
    /\ ~Signalled(scrapers[Watcher(urls, "t2", "a")])
    /\ \E i \in 1..Len(scrapers) : scrapers[i].chat_id = "t1" /\ Signalled(scrapers[i])

\* C20: when add replies the usage text (a missing argument) or "must be
\* positive" (an interval that is no positive integer), no Scraper is
\* constructed, started or stopped and every chat keeps its names and the
\* Scrapers bound to them.
C20_FailedAdd ==
    [][ (Returns("add") /\ last'.replies \in {<<AddUsage>>, <<MustBePositive>>})
        => /\ scrapers' = scrapers
           /\ \A c \in Chats : Entry(urls', c) = Entry(urls, c) ]_vars

C20_Witness ==
    /\ last.op = "add" /\ last.replies = <<MustBePositive>>
    /\ Registered(urls, last.chat, last.args[1])
    /\ LoopActive(scrapers[Watcher(urls, last.chat, last.args[1])])
    /\ scrapers[Watcher(urls, last.chat, last.args[1])].interval = 900

RunningCalls == {k \in 1..Len(calls) : Running(calls[k])}

\* the Scrapers bound to a name of a chat in dict u
Bound(u) == UNION {DictValues(u[c]) : c \in DOMAIN u}

====
